---- MODULE Spec2Model ----
(***************************************************************************)
(* Model of FESTIM's coupled heat-transfer / hydrogen-transport driver     *)
(* (festim/coupled_heat_hydrogen_problem.py).                              *)
(*                                                                         *)
(* Times and step sizes are integers (multiples of one time quantum).     *)
(* A finite-element field is abstracted to the number of the heat solve   *)
(* that produced its values, so that "which heat solution did the         *)
(* hydrogen step see" is observable.                                       *)
(***************************************************************************)
EXTENDS Integers, Sequences, FiniteSets, TLC

\* ---------------------------------------------------------------- bounds
MaxDt == 2
MaxFinal == 2
MaxTime == 3

\* Python's None for an unset number (final_time=None, stepsize=None).
None == 0

DtValues == 1..MaxDt
FinalTimes == 1..MaxFinal
\* the mesh objects the sub-problems are built on
Meshes == {"test_mesh", "alt_mesh"}

\* ------------------------------------------------------- class hierarchy
UnsupportedClasses ==
    {"HTransportProblemDiscontinuous", "HTransportProblemPenalty",
     "HydrogenTransportProblemDiscontinuousChangeVar"}

OtherClasses == {"str", "int", "float"}

\* the classes c such that an instance of cls is an instance of c
MRO(cls) ==
    CASE cls = "HTransportProblemDiscontinuous" ->
            {cls, "HydrogenTransportProblem"}
      [] cls = "HTransportProblemPenalty" ->
            {cls, "HTransportProblemDiscontinuous", "HydrogenTransportProblem"}
      [] cls = "HydrogenTransportProblemDiscontinuousChangeVar" ->
            {cls, "HTransportProblemDiscontinuous", "HydrogenTransportProblem"}
      [] OTHER -> {cls}

isinstance(value, classes) == MRO(value.cls) \cap classes # {}

\* --------------------------------------------------- objects handed in
\* A sub-problem as its constructor leaves it: settings and mesh set,
\* nothing initialised.
NewProblem(cls, transient, stepsize, final_time, mesh, bar) ==
    [cls |-> cls, transient |-> transient, initial_value |-> stepsize,
     final_time |-> final_time, mesh |-> mesh, show_progress_bar |-> bar,
     initialised |-> FALSE, t |-> 0, dt |-> None, u |-> None,
     temperature |-> "None", T_func |-> None, T_used |-> None,
     progress_bar |-> "None"]

ProblemsOf(cls, bars) ==
    {NewProblem(cls, TRUE, a, f, m, b) :
        a \in DtValues, f \in FinalTimes, m \in Meshes, b \in bars}
    \cup {NewProblem(cls, FALSE, None, None, m, b) : m \in Meshes, b \in bars}

NotAProblem(cls) == [cls |-> cls]

HeatArgs ==
    ProblemsOf("HeatTransferProblem", {TRUE})
    \cup {NotAProblem(c) : c \in OtherClasses}

HydrogenArgs ==
    ProblemsOf("HydrogenTransportProblem", BOOLEAN)
    \cup {NewProblem(c, TRUE, 1, 1, "test_mesh", TRUE) :
            c \in UnsupportedClasses}
    \cup {NotAProblem(c) : c \in OtherClasses}

NoProblem == NotAProblem("None")

NoGiven == [heat |-> "-", hydrogen |-> "-"]
NoProposal == [heat |-> None, hydrogen |-> None]

\* ------------------------------------------------------------- state
VARIABLES
    driver,            \* "none" (no driver object), "constructed",
                       \* "initialised", "running" (inside run's loop), "done"
    heat_problem,      \* the driver's _heat_problem
    hydrogen_problem,  \* the driver's _hydrogen_problem
    raised,            \* exception raised by the last operation, or "none"
    op,                \* the last operation called on the driver
    given,             \* classes of the values the last operation was given
    proposed,          \* the two step sizes the last operation reconciled:
                       \* the initial values initialise() found, the dt's
                       \* the sub-problems left during iterate()
    calls,             \* calls the last operation made, in order
    run_t0,            \* hydrogen time when run() was entered
    run_iters          \* iterate() calls made by run()

driver_vars == <<driver, heat_problem, hydrogen_problem, raised, op, given,
                 proposed, calls, run_t0, run_iters>>

\* the boundary-condition objects (festim/boundary_conditions)
VARIABLES
    bc,                \* a ParticleFluxBC or HeatFluxBC object
    imp,               \* an ImplantationDirichlet object
    value_BC,          \* the last result of dc_imp
    bc_op,             \* the last operation on a boundary condition
    bc_raised,         \* exception it raised, or "none"
    bc_calls           \* calls it made, in order

bc_vars == <<bc, imp, value_BC, bc_op, bc_raised, bc_calls>>

vars == <<driver_vars, bc_vars>>

NoOp == [name |-> "none", t |-> None, result |-> FALSE]

\* no boundary-condition object exists
BCIdle ==
    /\ bc = [cls |-> "None"]
    /\ imp = [cls |-> "None"]
    /\ value_BC = "unbound"
    /\ bc_op = NoOp
    /\ bc_raised = "none"
    /\ bc_calls = <<>>

\* no driver object exists
DriverIdle ==
    /\ driver = "none"
    /\ heat_problem = NoProblem
    /\ hydrogen_problem = NoProblem
    /\ raised = "none"
    /\ op = "none"
    /\ given = NoGiven
    /\ proposed = NoProposal
    /\ calls = <<>>
    /\ run_t0 = 0
    /\ run_iters = 0

Init == DriverIdle /\ BCIdle

\* ------------------------------------------------------------ setters
\* The exception a setter raises for a value, "none" when it stores it.
\* fault: the type check is missing
heat_problem_setter_unchecked(value) == "none"

heat_problem_setter(value) ==
    IF ~isinstance(value, {"HeatTransferProblem"})
    THEN "TypeError"
    ELSE "none"

\* fault: only the base-class check is made, the unsupported variants pass
hydrogen_problem_setter_base_only(value) ==
    IF ~isinstance(value, {"HydrogenTransportProblem"})
    THEN "TypeError"
    ELSE "none"

hydrogen_problem_setter(value) ==
    IF isinstance(value, UnsupportedClasses)
    THEN "NotImplementedError"
    ELSE IF ~isinstance(value, {"HydrogenTransportProblem"})
         THEN "TypeError"
         ELSE "none"

\* __init__: heat_problem is assigned first, then hydrogen_problem; the
\* first exception leaves no driver object.
Construct(hp, yp) ==
    /\ driver = "none"
    /\ UNCHANGED bc_vars
    /\ op' = "construct"
    /\ given' = [heat |-> hp.cls, hydrogen |-> yp.cls]
    /\ LET e1 == heat_problem_setter(hp)
           e2 == hydrogen_problem_setter(yp)
       IN  IF e1 # "none"
           THEN /\ raised' = e1
                /\ UNCHANGED <<driver, heat_problem, hydrogen_problem>>
           ELSE IF e2 # "none"
           THEN /\ raised' = e2
                /\ UNCHANGED <<driver, heat_problem, hydrogen_problem>>
           ELSE /\ raised' = "none"
                /\ driver' = "constructed"
                /\ heat_problem' = hp
                /\ hydrogen_problem' = yp
    /\ UNCHANGED <<proposed, calls, run_t0, run_iters>>

\* driver.heat_problem = value, on an existing driver not yet initialised
SetHeatProblem(value) ==
    /\ driver = "constructed"
    /\ UNCHANGED bc_vars
    /\ op' = "set_heat_problem"
    /\ given' = [heat |-> value.cls, hydrogen |-> "-"]
    /\ raised' = heat_problem_setter(value)
    /\ heat_problem' = IF heat_problem_setter(value) = "none"
                       THEN value ELSE heat_problem
    /\ UNCHANGED <<driver, hydrogen_problem, proposed, calls, run_t0,
                   run_iters>>

\* driver.hydrogen_problem = value, on an existing driver not yet initialised
SetHydrogenProblem(value) ==
    /\ driver = "constructed"
    /\ UNCHANGED bc_vars
    /\ op' = "set_hydrogen_problem"
    /\ given' = [heat |-> "-", hydrogen |-> value.cls]
    /\ raised' = hydrogen_problem_setter(value)
    /\ hydrogen_problem' = IF hydrogen_problem_setter(value) = "none"
                           THEN value ELSE hydrogen_problem
    /\ UNCHANGED <<driver, heat_problem, proposed, calls, run_t0, run_iters>>

\* ------------------------------------------------------ sub-problems
\* A sub-problem's own initialise(): builds its fields, resets its clock
\* and, for a transient problem, takes dt from its initial step size.
problem_initialise(p) ==
    [p EXCEPT !.initialised = TRUE, !.t = 0, !.u = 1,
              !.dt = IF p.transient THEN p.initial_value ELSE None]

\* A sub-problem's own iterate(): advances its clock by the dt it holds,
\* solves, and leaves in dt what its step-size controller proposes.
problem_iterate(p, next_dt) ==
    [p EXCEPT !.t = @ + p.dt, !.u = @ + 1, !.dt = next_dt]

\* A sub-problem's own run(): one solve when steady, its own time loop
\* (fixed step size) when transient.
RECURSIVE problem_run(_)
problem_run(p) ==
    IF p.transient
    THEN IF p.t < p.final_time
         THEN problem_run(problem_iterate(p, p.dt))
         ELSE p
    ELSE [p EXCEPT !.u = @ + 1]

\* The values of the field hydrogen_problem.temperature_fenics refers to:
\* the heat solution itself when aliased, the hydrogen-side field otherwise.
temperature_fenics(s) ==
    IF s.hyd.temperature = "heat_problem.u" THEN s.heat.u ELSE s.hyd.T_func

Log(s, name) == [s EXCEPT !.calls = Append(@, name)]

heat_problem_initialise(s) ==
    Log([s EXCEPT !.heat = problem_initialise(@)], "heat_problem.initialise")

hydrogen_problem_initialise(s) ==
    Log([s EXCEPT !.hyd = problem_initialise(@)],
        "hydrogen_problem.initialise")

heat_problem_iterate(s, next_dt) ==
    Log([s EXCEPT !.heat = problem_iterate(@, next_dt)],
        "heat_problem.iterate")

hydrogen_problem_iterate(s, next_dt) ==
    Log([s EXCEPT !.hyd = [problem_iterate(@, next_dt)
                             EXCEPT !.T_used = temperature_fenics(s)]],
        "hydrogen_problem.iterate")

heat_problem_run(s) ==
    Log([s EXCEPT !.heat = problem_run(@)], "heat_problem.run")

hydrogen_problem_run(s) ==
    Log([s EXCEPT !.hyd = [problem_run(@)
                             EXCEPT !.T_used = temperature_fenics(s)]],
        "hydrogen_problem.run")

\* ------------------------------------------------------------- driver
Min(a, b) == IF a <= b THEN a ELSE b

\* nmm_interpolate(hydrogen side field, heat_problem.u): overwrites the
\* target's values with the source's.
nmm_interpolate(s) ==
    Log([s EXCEPT !.hyd.T_func =
            IF s.hyd.temperature = "heat_problem.u" THEN @ ELSE s.heat.u],
        "nmm_interpolate")

non_matching_meshes(hp, yp) == hp.mesh # yp.mesh

both_transient(hp, yp) == hp.transient /\ yp.transient

\* fault: the larger of the two initial step sizes is taken
min_initial_dt_max(hp, yp) ==
    IF hp.initial_value >= yp.initial_value
    THEN hp.initial_value ELSE yp.initial_value

min_initial_dt(hp, yp) == Min(hp.initial_value, yp.initial_value)

\* initialise(), lines 131-142
reconcile_initial_dt(s) ==
    IF both_transient(s.heat, s.hyd)
    THEN [s EXCEPT !.heat.initial_value = min_initial_dt(s.heat, s.hyd),
                   !.hyd.initial_value = min_initial_dt(s.heat, s.hyd)]
    ELSE s

\* fault: only a shorter heat final time is reported
final_time_mismatch_shorter_heat(hp, yp) ==
    both_transient(hp, yp) /\ hp.final_time < yp.final_time

\* initialise(), lines 144-151: the condition of the raise
final_time_mismatch(hp, yp) ==
    both_transient(hp, yp) /\ hp.final_time # yp.final_time

\* initialise(), lines 157-165: T_func is the field that becomes
\* hydrogen_problem.temperature at line 163
set_temperature(s) ==
    IF non_matching_meshes(s.heat, s.hyd)
    THEN Log(nmm_interpolate(
                Log([s EXCEPT !.hyd.temperature = "T_func"], "fem.Function")),
             "hydrogen_problem.temperature")
    ELSE Log([s EXCEPT !.hyd.temperature = "heat_problem.u"],
             "hydrogen_problem.temperature")

\* fault: the hydrogen sub-problem is initialised before its temperature
\* is set
couple_hydrogen_first(s) ==
    set_temperature(
        hydrogen_problem_initialise(
            [heat_problem_initialise(s)
                EXCEPT !.heat.show_progress_bar = FALSE]))

\* initialise(), lines 153-167
couple(s) ==
    hydrogen_problem_initialise(
        set_temperature(
            [heat_problem_initialise(s)
                EXCEPT !.heat.show_progress_bar = FALSE]))

Initialise ==
    /\ driver = "constructed"
    /\ UNCHANGED bc_vars
    /\ op' = "initialise"
    /\ given' = NoGiven
    /\ LET s0 == [heat |-> heat_problem, hyd |-> hydrogen_problem,
                  calls |-> <<>>]
           s1 == reconcile_initial_dt(s0)
           s2 == couple(s1)
       IN  IF final_time_mismatch(s1.heat, s1.hyd)
           THEN /\ raised' = "ValueError"
                /\ heat_problem' = s1.heat
                /\ hydrogen_problem' = s1.hyd
                /\ calls' = s1.calls
                /\ UNCHANGED driver
           ELSE /\ raised' = "none"
                /\ heat_problem' = s2.heat
                /\ hydrogen_problem' = s2.hyd
                /\ calls' = s2.calls
                /\ driver' = "initialised"
    /\ proposed' = [heat |-> heat_problem.initial_value,
                    hydrogen |-> hydrogen_problem.initial_value]
    /\ UNCHANGED <<run_t0, run_iters>>

\* fault: the hydrogen step size is taken without comparing
next_dt_value_hydrogen_only(s) == s.hyd.dt

\* iterate(), lines 180-182
next_dt_value(s) == Min(s.hyd.dt, s.heat.dt)

\* fault: the hydrogen sub-problem is stepped before the heat sub-problem
advance_hydrogen_first(s, dh, dy) ==
    LET s1 == hydrogen_problem_iterate(s, dy)
        s2 == heat_problem_iterate(s1, dh)
    IN  IF non_matching_meshes(s2.heat, s2.hyd)
        THEN nmm_interpolate(s2) ELSE s2

\* fault: the per-step projection is left out
advance_without_projection(s, dh, dy) ==
    hydrogen_problem_iterate(heat_problem_iterate(s, dh), dy)

\* iterate(), lines 170-177: the two sub-steps and the projection
advance(s, dh, dy) ==
    LET s1 == heat_problem_iterate(s, dh)
        s2 == IF non_matching_meshes(s1.heat, s1.hyd)
              THEN nmm_interpolate(s1) ELSE s1
    IN  hydrogen_problem_iterate(s2, dy)

\* fault: only the hydrogen step size is overwritten with the shared value
iterate_hydrogen_dt_only(s, dh, dy) ==
    LET s3 == advance(s, dh, dy)
    IN  [s3 EXCEPT !.hyd.dt = next_dt_value(s3)]

\* iterate(), whole body; dh and dy are what the two step-size
\* controllers leave in dt
iterate(s, dh, dy) ==
    LET s3 == advance(s, dh, dy)
    IN  [s3 EXCEPT !.heat.dt = next_dt_value(s3),
                   !.hyd.dt = next_dt_value(s3)]

IterateStep(dh, dy) ==
    /\ op' = "iterate"
    /\ UNCHANGED bc_vars
    /\ given' = NoGiven
    /\ raised' = "none"
    /\ proposed' = [heat |-> dh, hydrogen |-> dy]
    /\ LET s == iterate([heat |-> heat_problem, hyd |-> hydrogen_problem,
                         calls |-> <<>>], dh, dy)
       IN  /\ heat_problem' = s.heat
           /\ hydrogen_problem' = s.hyd
           /\ calls' = s.calls

\* iterate() called by the user on an initialised transient driver
Iterate(dh, dy) ==
    /\ driver = "initialised"
    /\ both_transient(heat_problem, hydrogen_problem)
    /\ hydrogen_problem.t < MaxTime
    /\ IterateStep(dh, dy)
    /\ UNCHANGED <<driver, run_t0, run_iters>>

\* fault: the loop goes on while the time has not passed the final time
run_condition_inclusive(yp) == yp.t <= yp.final_time

\* run(), lines 202-205: the loop condition
run_condition(yp) == yp.t < yp.final_time

\* run(), lines 191-200: entry of the transient branch
Run ==
    /\ driver = "initialised"
    /\ UNCHANGED bc_vars
    /\ both_transient(heat_problem, hydrogen_problem)
    /\ driver' = "running"
    /\ op' = "run"
    /\ given' = NoGiven
    /\ raised' = "none"
    /\ calls' = <<>>
    /\ run_t0' = hydrogen_problem.t
    /\ run_iters' = 0
    /\ hydrogen_problem' =
          IF hydrogen_problem.show_progress_bar
          THEN [hydrogen_problem EXCEPT !.progress_bar = "open"]
          ELSE hydrogen_problem
    /\ UNCHANGED <<heat_problem, proposed>>

\* run(), lines 202-206: one turn of the loop
RunIterate(dh, dy) ==
    /\ driver = "running"
    /\ run_condition(hydrogen_problem)
    /\ IterateStep(dh, dy)
    /\ run_iters' = run_iters + 1
    /\ UNCHANGED <<driver, run_t0>>

\* run(), lines 202-210: the loop ends and run() returns
RunReturn ==
    /\ driver = "running"
    /\ UNCHANGED bc_vars
    /\ ~run_condition(hydrogen_problem)
    /\ driver' = "done"
    /\ op' = "run"
    /\ hydrogen_problem' =
          IF hydrogen_problem.show_progress_bar
          THEN [hydrogen_problem EXCEPT !.progress_bar = "closed"]
          ELSE hydrogen_problem
    /\ UNCHANGED <<heat_problem, raised, given, proposed, calls, run_t0,
                   run_iters>>

\* fault: the projection on non-matching meshes is left out
solve_steady_no_projection(s) ==
    hydrogen_problem_run(hydrogen_problem_initialise(heat_problem_run(s)))

\* run(), lines 211-221: the steady-state branch
solve_steady(s) ==
    LET s1 == heat_problem_run(s)
        s2 == IF non_matching_meshes(s1.heat, s1.hyd)
              THEN nmm_interpolate(s1) ELSE s1
    IN  hydrogen_problem_run(hydrogen_problem_initialise(s2))

RunSteady ==
    /\ driver = "initialised"
    /\ UNCHANGED bc_vars
    /\ ~both_transient(heat_problem, hydrogen_problem)
    /\ driver' = "done"
    /\ op' = "run"
    /\ given' = NoGiven
    /\ raised' = "none"
    /\ run_t0' = hydrogen_problem.t
    /\ run_iters' = 0
    /\ LET s == solve_steady([heat |-> heat_problem,
                              hyd |-> hydrogen_problem, calls |-> <<>>])
       IN  /\ heat_problem' = s.heat
           /\ hydrogen_problem' = s.hyd
           /\ calls' = s.calls
    /\ UNCHANGED proposed

Next ==
    \/ \E hp \in HeatArgs, yp \in HydrogenArgs : Construct(hp, yp)
    \/ \E v \in HeatArgs : SetHeatProblem(v)
    \/ \E v \in HydrogenArgs : SetHydrogenProblem(v)
    \/ Initialise
    \/ \E dh \in DtValues, dy \in DtValues : Iterate(dh, dy)
    \/ Run
    \/ \E dh \in DtValues, dy \in DtValues : RunIterate(dh, dy)
    \/ RunReturn
    \/ RunSteady

Spec == Init /\ [][Next]_vars

\* ============================================== flux boundary conditions
\* festim/boundary_conditions/flux_bc.py
MaxNum == 2

NumValues == 1..MaxNum
Times == 0..MaxTime

\* A value a boundary condition can be given.  A callable is a formula with
\* declared parameter names args; one that declares t alone computes
\* num + t, as a plain number or wrapped in an array.
Value(kind, num, args, returns) ==
    [kind |-> kind, num |-> num, args |-> args, returns |-> returns]

NoneValue == Value("None", None, {}, "None")

Numbers == {Value(k, n, {}, "None") : k \in {"int", "float"}, n \in NumValues}

FemConstants == {Value("Constant", n, {}, "None") : n \in NumValues}

TimeFormulas ==
    {Value("callable", n, {"t"}, r) :
        n \in NumValues, r \in {"number", "ndarray"}}

SpatialFormulas ==
    {Value("callable", 1, a, "ufl") :
        a \in (SUBSET {"x", "t", "T"}) \ {{}, {"t"}}}

Values ==
    {NoneValue} \cup Numbers \cup FemConstants \cup TimeFormulas
    \cup SpatialFormulas

FluxClasses == {"ParticleFluxBC", "HeatFluxBC"}

\* value_fenics: None, a fem.Constant holding num, or a fem.Function
\* holding the samples of the expression data
NoExpr == [is_set |-> FALSE, formula |-> NoneValue, kwargs |-> {}]
Expression(formula, kwargs) ==
    [is_set |-> TRUE, formula |-> formula, kwargs |-> kwargs]

NoFenics == [type |-> "None", num |-> None, data |-> NoExpr]
as_fenics_constant(num) == [type |-> "Constant", num |-> num, data |-> NoExpr]
Function(data) == [type |-> "Function", num |-> None, data |-> data]

\* FluxBCBase.__init__ and the subclasses' __init__
NewFluxBC(cls, value) ==
    [cls |-> cls, value |-> value, value_fenics |-> NoFenics,
     bc_expr |-> NoExpr]

callable(value) == value.kind = "callable"

co_varnames(value) == value.args

\* the value a formula of t alone returns for t
value_at(value, t) == value.num + t

\* value(**kwargs) binds iff the keywords are exactly the parameters
binds(value, kwargs) == kwargs = co_varnames(value)

\* fault: every callable counts as time dependent
time_dependent_any_callable(b) == callable(b.value)

\* FluxBCBase.time_dependent
time_dependent(b) ==
    IF b.value.kind = "None" THEN FALSE
    ELSE IF b.value.kind = "Constant" THEN FALSE
    ELSE IF callable(b.value) THEN "t" \in co_varnames(b.value)
    ELSE FALSE

\* ParticleFluxBC.temperature_dependent
temperature_dependent(b) ==
    IF b.value.kind = "None" THEN FALSE
    ELSE IF b.value.kind = "Constant" THEN FALSE
    ELSE IF callable(b.value) THEN "T" \in co_varnames(b.value)
    ELSE FALSE

\* the "only t is an argument" test of the two create_value_fenics
only_t(b) ==
    IF b.cls = "ParticleFluxBC"
    THEN /\ "t" \in co_varnames(b.value)
         /\ "x" \notin co_varnames(b.value)
         /\ "T" \notin co_varnames(b.value)
    ELSE /\ "t" \in co_varnames(b.value)
         /\ "x" \notin co_varnames(b.value)

\* fault: the temperature is never passed
kwargs_of_without_T(b) == co_varnames(b.value) \cap {"t", "x"}

\* the keyword arguments the two create_value_fenics collect
kwargs_of(b) ==
    co_varnames(b.value)
        \cap (IF b.cls = "ParticleFluxBC" THEN {"t", "x", "T"}
              ELSE {"t", "x"})

Outcome(b, exc, log) == [bc |-> b, raised |-> exc, calls |-> log]

\* create_value_fenics, the branch of a plain number
create_constant(b) ==
    Outcome([b EXCEPT !.value_fenics = as_fenics_constant(b.value.num)],
            "none", <<"as_fenics_constant">>)

\* fault: the returned type is not checked
create_time_scalar_unchecked(b, t) ==
    Outcome([b EXCEPT !.value_fenics =
                    as_fenics_constant(value_at(b.value, t))],
            "none", <<"value(t)", "as_fenics_constant">>)

\* create_value_fenics, the branch of a formula of t alone
create_time_scalar(b, t) ==
    IF ~binds(b.value, {"t"})
    THEN Outcome(b, "TypeError", <<"value(t)">>)
    ELSE IF b.value.returns # "number"
    THEN Outcome(b, "ValueError", <<"value(t)">>)
    ELSE Outcome([b EXCEPT !.value_fenics =
                        as_fenics_constant(value_at(b.value, t))],
                 "none", <<"value(t)", "as_fenics_constant">>)

\* create_value_fenics, the branch of the other formulas
create_spatial(b) ==
    LET b1 == [b EXCEPT !.value_fenics = Function(NoExpr)]
        e == Expression(b.value, kwargs_of(b))
    IN  IF ~binds(b.value, kwargs_of(b))
        THEN Outcome(b1, "TypeError", <<"fem.Function", "value(**kwargs)">>)
        ELSE Outcome([b1 EXCEPT !.bc_expr = e,
                                !.value_fenics = Function(e)],
                     "none",
                     <<"fem.Function", "value(**kwargs)", "fem.Expression",
                       "value_fenics.interpolate">>)

\* fault: only a float counts as a plain number
create_value_fenics_float_only(b, t) ==
    IF b.value.kind \in {"float"}
    THEN create_constant(b)
    ELSE IF callable(b.value)
    THEN IF only_t(b) THEN create_time_scalar(b, t) ELSE create_spatial(b)
    ELSE Outcome(b, "none", <<>>)

\* ParticleFluxBC.create_value_fenics / HeatFluxBC.create_value_fenics
create_value_fenics(b, t) ==
    IF b.value.kind \in {"int", "float"}
    THEN create_constant(b)
    ELSE IF callable(b.value)
    THEN IF only_t(b) THEN create_time_scalar(b, t) ELSE create_spatial(b)
    ELSE Outcome(b, "none", <<>>)

\* FluxBCBase.update, the branch that reassigns the scalar
update_scalar(b, t) ==
    IF ~binds(b.value, {"t"})
    THEN Outcome(b, "TypeError", <<"value(t)">>)
    ELSE IF b.value.returns # "number"
    THEN Outcome(b, "ValueError", <<"value(t)", "value_fenics.value=">>)
    ELSE Outcome([b EXCEPT !.value_fenics.num = value_at(b.value, t)],
                 "none", <<"value(t)", "value_fenics.value=">>)

\* FluxBCBase.update, the branch that interpolates bc_expr
update_interpolate(b) ==
    IF b.value_fenics.type # "Function"
    THEN Outcome(b, "AttributeError", <<>>)
    ELSE IF ~b.bc_expr.is_set
    THEN Outcome(b, "TypeError", <<"value_fenics.interpolate">>)
    ELSE Outcome([b EXCEPT !.value_fenics = Function(b.bc_expr)],
                 "none", <<"value_fenics.interpolate">>)

\* fault: every callable value is re-interpolated
update_always_interpolates(b, t) ==
    IF callable(b.value)
    THEN update_interpolate(b)
    ELSE Outcome(b, "none", <<>>)

\* FluxBCBase.update
update(b, t) ==
    IF callable(b.value)
    THEN IF b.value_fenics.type = "Constant" /\ "t" \in co_varnames(b.value)
         THEN update_scalar(b, t)
         ELSE update_interpolate(b)
    ELSE Outcome(b, "none", <<>>)

FluxFrame == UNCHANGED <<driver_vars, imp, value_BC>>

Apply(name, t, out) ==
    /\ bc' = out.bc
    /\ bc_raised' = out.raised
    /\ bc_calls' = out.calls
    /\ bc_op' = [name |-> name, t |-> t, result |-> FALSE]
    /\ FluxFrame

\* ParticleFluxBC(subdomain, value, species) / HeatFluxBC(subdomain, value)
ConstructFluxBC(cls, value) ==
    /\ bc.cls = "None"
    /\ Apply("construct", None, Outcome(NewFluxBC(cls, value), "none", <<>>))

\* bc.value = value
SetValue(value) ==
    /\ bc.cls # "None"
    /\ Apply("set_value", None, Outcome([bc EXCEPT !.value = value],
                                        "none", <<>>))

CreateValueFenics(t) ==
    /\ bc.cls # "None"
    /\ Apply("create_value_fenics", t, create_value_fenics(bc, t))

Update(t) ==
    /\ bc.cls # "None"
    /\ Apply("update", t, update(bc, t))

\* reading bc.time_dependent
ReadTimeDependent ==
    /\ bc.cls # "None"
    /\ bc_op' = [name |-> "time_dependent", t |-> None,
                 result |-> time_dependent(bc)]
    /\ bc_raised' = "none"
    /\ bc_calls' = <<>>
    /\ UNCHANGED bc
    /\ FluxFrame

\* reading bc.temperature_dependent, which FluxBCBase and HeatFluxBC lack
ReadTemperatureDependent ==
    /\ bc.cls # "None"
    /\ bc_op' = [name |-> "temperature_dependent", t |-> None,
                 result |-> IF bc.cls = "ParticleFluxBC"
                            THEN temperature_dependent(bc) ELSE FALSE]
    /\ bc_raised' = IF bc.cls = "ParticleFluxBC" THEN "none"
                    ELSE "AttributeError"
    /\ bc_calls' = <<>>
    /\ UNCHANGED bc
    /\ FluxFrame

NextFlux ==
    \/ \E c \in FluxClasses, v \in Values : ConstructFluxBC(c, v)
    \/ \E v \in Values : SetValue(v)
    \/ \E t \in Times : CreateValueFenics(t)
    \/ \E t \in Times : Update(t)
    \/ ReadTimeDependent
    \/ ReadTemperatureDependent

SpecFlux == Init /\ [][NextFlux]_vars

\* ======================================= implantation boundary condition
\* festim/boundary_conditions/implantation_dirichlet.py
\* Operands are kept as symbols and results as the text of the expression
\* the arithmetic builds; "None" is Python's None and "unset" an attribute
\* that was never assigned.
Shapes == {"number", "callable"}
Optional == {"None", "number"}
Backends == {"np", "ufl"}

Paren(e) == "(" \o e \o ")"

\* mod.exp(-E / k_B / T)
Exp(mod, E, T) == mod \o ".exp(-" \o E \o "/k_B/" \o T \o ")"

\* fault: the branch without dissociation is missing
dc_imp_without_else(mod, T, phi, R_p, D_0, E_D, Kr_0, E_Kr, Kd_0, E_Kd, P) ==
    LET D == D_0 \o "*" \o Exp(mod, E_D, T)
        value == phi \o "*" \o R_p \o "/" \o Paren(D)
        Kr == Kr_0 \o "*" \o Exp(mod, E_Kr, T)
        Kd == Kd_0 \o "*" \o Exp(mod, E_Kd, T)
    IN  IF Kr_0 # "None" /\ Kd_0 # "None"
        THEN IF E_Kr = "None" \/ E_Kd = "None" \/ P = "None"
             THEN [raised |-> "TypeError", value |-> "unbound"]
             ELSE [raised |-> "none",
                   value |-> value \o " + "
                       \o Paren(Paren(phi \o " + " \o Kd \o "*" \o P)
                                \o "/" \o Paren(Kr))
                       \o "**0.5"]
        ELSE [raised |-> "none", value |-> value]

\* dc_imp; arithmetic on None raises TypeError
dc_imp(mod, T, phi, R_p, D_0, E_D, Kr_0, E_Kr, Kd_0, E_Kd, P) ==
    LET D == D_0 \o "*" \o Exp(mod, E_D, T)
        value == phi \o "*" \o R_p \o "/" \o Paren(D)
        Kr == Kr_0 \o "*" \o Exp(mod, E_Kr, T)
        Kd == Kd_0 \o "*" \o Exp(mod, E_Kd, T)
    IN  IF Kr_0 # "None"
        THEN IF E_Kr = "None"
             THEN [raised |-> "TypeError", value |-> "unbound"]
             ELSE IF Kd_0 # "None"
             THEN IF E_Kd = "None" \/ P = "None"
                  THEN [raised |-> "TypeError", value |-> "unbound"]
                  ELSE [raised |-> "none",
                        value |-> value \o " + "
                            \o Paren(Paren(phi \o " + " \o Kd \o "*" \o P)
                                     \o "/" \o Paren(Kr))
                            \o "**0.5"]
             ELSE [raised |-> "none",
                   value |-> value \o " + "
                       \o Paren(phi \o "/" \o Paren(Kr)) \o "**0.5"]
        ELSE [raised |-> "none", value |-> value]

\* ImplantationDirichlet.__init__; an activation energy is given with its
\* pre-exponential factor
NewImplantation(phi, R_p, Kr_0, Kd_0, P) ==
    [cls |-> "ImplantationDirichlet", phi |-> phi, R_p |-> R_p,
     Kr_0 |-> Kr_0, E_Kr |-> Kr_0, Kd_0 |-> Kd_0, E_Kd |-> Kd_0, P |-> P,
     phi_fenics |-> "unset", R_p_fenics |-> "unset", P_fenics |-> "unset",
     value_fenics |-> "None", bc_expr |-> "None"]

\* the symbol an operand of a given shape is written as
Operand(name, shape) ==
    CASE shape = "number" -> name
      [] shape = "callable" -> name \o "(x,t,T)"
      [] OTHER -> shape

\* create_value, lines 137-147 (phi) and 150-160 (R_p): a number is kept,
\* a formula is mapped
convert(name, shape, current) ==
    IF shape = "number" THEN Operand(name, shape)
    ELSE IF shape = "callable" THEN Operand(name, shape)
    ELSE current

\* create_value, lines 187-191
backend(o) ==
    IF \A arg \in {o.phi, o.R_p, "number", o.Kr_0, o.E_Kr, o.Kd_0, o.E_Kd,
                   o.P} : arg \in {"number", "None"}
    THEN "np" ELSE "ufl"

Result(o, exc, v) == [imp |-> o, raised |-> exc, value_BC |-> v]

\* create_value, lines 205-215, for a value_BC that was computed
install(o, mod, v) ==
    IF mod = "np" /\ o.phi_fenics = "phi" /\ o.R_p_fenics = "R_p"
    THEN Result([o EXCEPT !.value_fenics = "Constant"], "none", v)
    ELSE Result([o EXCEPT !.value_fenics = "Function", !.bc_expr = v],
                "none", v)

\* create_value, lines 169-204: the only place value_BC is assigned
compute(o) ==
    LET o1 == [o EXCEPT !.R_p_fenics = Operand("R_p", o.R_p)]
        r == dc_imp(backend(o1), "T", o1.phi_fenics, o1.R_p_fenics, "D_0",
                    "E_D", Operand("Kr_0", o1.Kr_0), Operand("E_Kr", o1.E_Kr),
                    Operand("Kd_0", o1.Kd_0), Operand("E_Kd", o1.E_Kd),
                    o1.P_fenics)
    IN  IF o1.phi_fenics = "unset" \/ o1.P_fenics = "unset"
        THEN Result(o1, "AttributeError", "unbound")
        ELSE IF r.raised # "none"
        THEN Result(o1, r.raised, "unbound")
        ELSE install(o1, backend(o1), r.value)

\* ImplantationDirichlet.create_value
create_value(o) ==
    LET o1 == [o EXCEPT
                  !.phi_fenics = convert("phi", o.phi, @),
                  !.R_p_fenics = convert("R_p", o.R_p, @)]
    IN  IF o1.P = "None"
        THEN Result([o1 EXCEPT !.P_fenics = "None"],
                    "UnboundLocalError", "unbound")
        ELSE IF o1.R_p = "number"
        THEN Result(o1, "UnboundLocalError", "unbound")
        ELSE IF o1.R_p = "callable"
        THEN compute(o1)
        ELSE Result(o1, "UnboundLocalError", "unbound")

ImpFrame == UNCHANGED <<driver_vars, bc>>

ImpOp(name) == [name |-> name, t |-> None, result |-> FALSE]

ConstructImplantation(phi, R_p, Kr_0, Kd_0, P) ==
    /\ imp.cls = "None"
    /\ imp' = NewImplantation(phi, R_p, Kr_0, Kd_0, P)
    /\ bc_op' = ImpOp("construct")
    /\ bc_raised' = "none"
    /\ value_BC' = "unbound"
    /\ UNCHANGED bc_calls
    /\ ImpFrame

\* bc.P = P
SetP(P) ==
    /\ imp.cls # "None"
    /\ imp' = [imp EXCEPT !.P = P]
    /\ bc_op' = ImpOp("set_P")
    /\ bc_raised' = "none"
    /\ UNCHANGED <<value_BC, bc_calls>>
    /\ ImpFrame

\* bc.R_p = R_p
SetR_p(R_p) ==
    /\ imp.cls # "None"
    /\ imp' = [imp EXCEPT !.R_p = R_p]
    /\ bc_op' = ImpOp("set_R_p")
    /\ bc_raised' = "none"
    /\ UNCHANGED <<value_BC, bc_calls>>
    /\ ImpFrame

CreateValue ==
    /\ imp.cls # "None"
    /\ LET r == create_value(imp)
       IN  /\ imp' = r.imp
           /\ bc_raised' = r.raised
           /\ value_BC' = r.value_BC
    /\ bc_op' = ImpOp("create_value")
    /\ UNCHANGED bc_calls
    /\ ImpFrame

\* dc_imp called with the object's operands and a chosen backend
CallDcImp(mod) ==
    /\ imp.cls # "None"
    /\ LET r == dc_imp(mod, "T", Operand("phi", imp.phi),
                       Operand("R_p", imp.R_p), "D_0", "E_D",
                       Operand("Kr_0", imp.Kr_0), Operand("E_Kr", imp.E_Kr),
                       Operand("Kd_0", imp.Kd_0), Operand("E_Kd", imp.E_Kd),
                       Operand("P", imp.P))
       IN  /\ bc_raised' = r.raised
           /\ value_BC' = r.value
    /\ bc_op' = [name |-> "dc_imp", t |-> None, result |-> mod = "np"]
    /\ UNCHANGED <<imp, bc_calls>>
    /\ ImpFrame

NextImp ==
    \/ \E phi \in Shapes, R_p \in Shapes, Kr_0 \in Optional,
          Kd_0 \in Optional, P \in Optional :
            ConstructImplantation(phi, R_p, Kr_0, Kd_0, P)
    \/ \E P \in Optional : SetP(P)
    \/ \E R_p \in Shapes : SetR_p(R_p)
    \/ CreateValue
    \/ \E mod \in Backends : CallDcImp(mod)

SpecImp == Init /\ [][NextImp]_vars

\* =========================================================== properties
HeatTransient ==
    heat_problem.cls = "HeatTransferProblem" /\ heat_problem.transient
HydrogenTransient ==
    hydrogen_problem.cls = "HydrogenTransportProblem"
    /\ hydrogen_problem.transient
BothTransient == driver # "none" /\ HeatTransient /\ HydrogenTransient
MeshesDiffer == driver # "none" /\ heat_problem.mesh # hydrogen_problem.mesh

\* C1 (as stated): a construction given an unsupported hydrogen variant
\* always raises NotImplementedError and leaves no driver.
C1_AlwaysNotImplemented ==
    (op = "construct" /\ given.hydrogen \in UnsupportedClasses)
        => (raised = "NotImplementedError" /\ driver = "none")

\* C1 (amended): a construction given an unsupported hydrogen variant never
\* yields a driver; it raises NotImplementedError when the heat argument is
\* a HeatTransferProblem, and the heat setter's TypeError otherwise.
C1_UnsupportedVariantRejected ==
    (op = "construct" /\ given.hydrogen \in UnsupportedClasses)
        => /\ driver = "none"
           /\ raised = IF given.heat = "HeatTransferProblem"
                       THEN "NotImplementedError" ELSE "TypeError"

C1_Witness ==
    /\ op = "construct"
    /\ given = [heat |-> "HeatTransferProblem",
                hydrogen |-> "HTransportProblemPenalty"]
    /\ raised = "NotImplementedError"
    /\ driver = "none"

\* C2: a wrong-typed heat_problem or hydrogen_problem, at construction or
\* on re-assignment, raises TypeError and is not stored; every driver holds
\* a HeatTransferProblem and a supported HydrogenTransportProblem.
C2_WrongTypesRejected ==
    /\ [](driver # "none" =>
            /\ heat_problem.cls = "HeatTransferProblem"
            /\ hydrogen_problem.cls = "HydrogenTransportProblem")
    /\ []((op \in {"construct", "set_heat_problem"}
            /\ given.heat \in OtherClasses) => raised = "TypeError")
    /\ []((op \in {"construct", "set_hydrogen_problem"}
            /\ given.hydrogen \in OtherClasses) => raised = "TypeError")
    /\ [][raised' = "TypeError" =>
            UNCHANGED <<driver, heat_problem, hydrogen_problem>>]_vars

C2_Witness ==
    /\ driver = "constructed"
    /\ op = "set_hydrogen_problem"
    /\ given.hydrogen = "str"
    /\ raised = "TypeError"
    /\ hydrogen_problem.cls = "HydrogenTransportProblem"

\* C3: after a successful initialise() of two transient sub-problems, both
\* initial step sizes equal the minimum of the two found on entry, and the
\* two current step sizes are equal.
C3_InitialStepReconciled ==
    (op = "initialise" /\ raised = "none" /\ BothTransient)
        => /\ heat_problem.initial_value
                = Min(proposed.heat, proposed.hydrogen)
           /\ hydrogen_problem.initial_value
                = Min(proposed.heat, proposed.hydrogen)
           /\ heat_problem.dt = hydrogen_problem.dt

C3_Witness ==
    /\ op = "initialise"
    /\ driver = "initialised"
    /\ BothTransient
    /\ proposed = [heat |-> 2, hydrogen |-> 1]
    /\ heat_problem.initial_value = 1
    /\ heat_problem.dt = 1
    /\ hydrogen_problem.dt = 1

C5_FinalTimesReconciled ==
    (op = "initialise" /\ BothTransient)
        => /\ raised = "none"
           /\ heat_problem.final_time = hydrogen_problem.final_time

\* C6 (as stated): initialise() of sub-problems on different meshes raises
\* ValueError and couples nothing.
C6_DifferentMeshesRaise ==
    (op = "initialise" /\ MeshesDiffer)
        => /\ raised = "ValueError"
           /\ hydrogen_problem.temperature = "None"
           /\ driver = "constructed"

\* C7: after every iterate() both step sizes equal the minimum of the two
\* the sub-problems proposed; between iterations they are equal.
C7_SharedNextStep ==
    /\ op = "iterate" =>
          /\ heat_problem.dt = Min(proposed.heat, proposed.hydrogen)
          /\ hydrogen_problem.dt = Min(proposed.heat, proposed.hydrogen)
    /\ (driver \in {"initialised", "running", "done"} /\ BothTransient)
          => heat_problem.dt = hydrogen_problem.dt

C7_Witness ==
    /\ op = "iterate"
    /\ proposed = [heat |-> 2, hydrogen |-> 1]
    /\ heat_problem.dt = 1
    /\ hydrogen_problem.dt = 1

\* C8: in every iterate() the heat step comes first and the hydrogen step
\* last, with exactly one projection between them when the meshes differ
\* and none when they match; the hydrogen step sees this iteration's heat
\* solution.
C8_HeatThenProjectThenHydrogen ==
    op = "iterate" =>
        /\ calls = IF heat_problem.mesh # hydrogen_problem.mesh
                   THEN <<"heat_problem.iterate", "nmm_interpolate",
                          "hydrogen_problem.iterate">>
                   ELSE <<"heat_problem.iterate",
                          "hydrogen_problem.iterate">>
        /\ hydrogen_problem.T_used = heat_problem.u

C8_Witness ==
    /\ op = "iterate"
    /\ MeshesDiffer
    /\ Len(calls) = 3
    /\ heat_problem.u = 3
    /\ hydrogen_problem.T_used = 3

\* C9: the transient run() calls iterate() only while the hydrogen time is
\* below the hydrogen final time, returns only once it is not, and calls
\* iterate() not at all when it was not on entry.
C9_RunLoopsOnHydrogenClock ==
    /\ [][(driver = "running" /\ op' = "iterate") =>
            hydrogen_problem.t < hydrogen_problem.final_time]_vars
    /\ []((driver = "done" /\ BothTransient) =>
            hydrogen_problem.t >= hydrogen_problem.final_time)
    /\ []((driver \in {"running", "done"} /\ BothTransient
            /\ run_t0 >= hydrogen_problem.final_time) => run_iters = 0)
    /\ []((driver = "running" /\ run_iters > 0) =>
            run_t0 < hydrogen_problem.final_time)

C9_Witness ==
    /\ driver = "done"
    /\ BothTransient
    /\ run_t0 = 0
    /\ run_iters = 2
    /\ hydrogen_problem.t = hydrogen_problem.final_time

C9_WitnessNoIteration ==
    /\ driver = "done"
    /\ BothTransient
    /\ run_t0 >= hydrogen_problem.final_time
    /\ run_iters = 0

\* C10: when not both sub-problems are transient, run() calls iterate()
\* never: it runs the heat sub-problem, projects iff the meshes differ,
\* then (re-initialises and) runs the hydrogen sub-problem once, which sees
\* the heat solution just computed.
C10_SteadyRunOrder ==
    (op = "run" /\ driver = "done" /\ ~BothTransient) =>
        /\ run_iters = 0
        /\ calls = <<"heat_problem.run">>
                   \o (IF heat_problem.mesh # hydrogen_problem.mesh
                       THEN <<"nmm_interpolate">> ELSE <<>>)
                   \o <<"hydrogen_problem.initialise",
                        "hydrogen_problem.run">>
        /\ hydrogen_problem.T_used = heat_problem.u

C10_Witness ==
    /\ op = "run"
    /\ driver = "done"
    /\ heat_problem.transient
    /\ ~hydrogen_problem.transient
    /\ MeshesDiffer
    /\ Len(calls) = 4
    /\ heat_problem.t >= heat_problem.final_time

\* ------------------------------------------------ flux boundary conditions
FluxExists == bc.cls # "None"
Created == FluxExists /\ bc_op.name = "create_value_fenics"
Updated == FluxExists /\ bc_op.name = "update"
IsTimeFormula == FluxExists /\ bc.value.kind = "callable" /\ bc.value.args = {"t"}
IsSpatialFormula ==
    /\ FluxExists
    /\ bc.value.kind = "callable"
    /\ bc.value.args \cap {"x", "T"} # {}

\* C11: create_value_fenics of a ParticleFluxBC or HeatFluxBC whose value
\* is a plain number installs a Constant holding that number, never a
\* Function and never None, and does not touch bc_expr.
C11_NumberBecomesConstant ==
    /\ []((Created /\ bc.value.kind \in {"int", "float"}) =>
            /\ bc_raised = "none"
            /\ bc.value_fenics.type = "Constant"
            /\ bc.value_fenics.num = bc.value.num)
    /\ [][(FluxExists /\ bc_op'.name = "create_value_fenics"
            /\ bc.value.kind \in {"int", "float"}) =>
            bc'.bc_expr = bc.bc_expr]_vars

C11_Witness ==
    /\ Created
    /\ bc.cls = "HeatFluxBC"
    /\ bc.value.kind = "int"
    /\ bc.value.num = 2
    /\ bc.value_fenics.type = "Constant"
    /\ bc.value_fenics.num = 2
    /\ ~bc.bc_expr.is_set

\* C12 (as stated): create_value_fenics of any formula declaring t alone
\* installs a Constant holding the formula at the creation time.
C12_EveryTimeFormulaBecomesConstant ==
    (Created /\ IsTimeFormula) =>
        /\ bc.value_fenics.type = "Constant"
        /\ bc.value_fenics.num = value_at(bc.value, bc_op.t)

\* C12 (amended): for a formula declaring t alone that returns a plain
\* number, create_value_fenics installs a Constant holding the formula at
\* the creation time, and every update(t) of that Constant assigns the
\* formula at t to it in place, with no interpolation and no new object.
C12_TimeFormulaIsScalar ==
    /\ []((Created /\ IsTimeFormula /\ bc.value.returns = "number") =>
            /\ bc_raised = "none"
            /\ bc.value_fenics.type = "Constant"
            /\ bc.value_fenics.num = value_at(bc.value, bc_op.t))
    /\ []((Updated /\ IsTimeFormula /\ bc.value.returns = "number"
            /\ bc.value_fenics.type = "Constant") =>
            /\ bc_raised = "none"
            /\ bc.value_fenics.num = value_at(bc.value, bc_op.t)
            /\ bc_calls = <<"value(t)", "value_fenics.value=">>)
    /\ [][(bc_op'.name = "update" /\ IsTimeFormula
            /\ bc.value.returns = "number"
            /\ bc.value_fenics.type = "Constant") =>
            /\ bc'.value_fenics.type = "Constant"
            /\ bc'.bc_expr = bc.bc_expr]_vars

C12_Witness ==
    /\ Updated
    /\ IsTimeFormula
    /\ bc.value.returns = "number"
    /\ bc.value.num = 1
    /\ bc_op.t = 2
    /\ bc.value_fenics.type = "Constant"
    /\ bc.value_fenics.num = 3

\* C13: create_value_fenics of a formula declaring t alone that returns
\* something other than a plain number raises ValueError and leaves the
\* boundary condition as it was.
C13_NonNumberRaises ==
    [][(bc_op'.name = "create_value_fenics" /\ IsTimeFormula
        /\ bc.value.returns # "number") =>
        /\ bc_raised' = "ValueError"
        /\ bc' = bc]_vars

C13_Witness ==
    /\ Created
    /\ IsTimeFormula
    /\ bc.value.returns = "ndarray"
    /\ bc_raised = "ValueError"
    /\ bc.value_fenics.type = "Constant"

\* the formulas each class can call with what it collects
SupportedSpatialFormula ==
    /\ IsSpatialFormula
    /\ bc.cls = "HeatFluxBC" => "T" \notin bc.value.args

\* C14 (as stated): in both classes create_value_fenics of a formula
\* declaring x and/or T calls it with exactly its declared names, stores
\* the expression and installs a Function interpolated from it.
C14_EverySpatialFormulaBecomesFunction ==
    (Created /\ IsSpatialFormula) =>
        /\ bc_raised = "none"
        /\ bc.bc_expr = Expression(bc.value, bc.value.args)
        /\ bc.value_fenics = Function(bc.bc_expr)

\* C14 (amended): the same for the formulas a class supports, which for
\* HeatFluxBC are those that do not declare T; and every later update
\* interpolates the stored expression again, once, into a Function.
C14_SpatialFormulaIsFunction ==
    /\ []((Created /\ SupportedSpatialFormula) =>
            /\ bc_raised = "none"
            /\ bc.bc_expr = Expression(bc.value, bc.value.args)
            /\ bc.value_fenics = Function(bc.bc_expr)
            /\ bc_calls = <<"fem.Function", "value(**kwargs)",
                            "fem.Expression", "value_fenics.interpolate">>)
    /\ []((Updated /\ SupportedSpatialFormula
            /\ bc.bc_expr = Expression(bc.value, bc.value.args)
            /\ bc.value_fenics.type = "Function") =>
            /\ bc_raised = "none"
            /\ bc.value_fenics = Function(bc.bc_expr)
            /\ bc_calls = <<"value_fenics.interpolate">>)
    /\ [][(bc_op'.name = "update" /\ SupportedSpatialFormula
            /\ bc.bc_expr = Expression(bc.value, bc.value.args)
            /\ bc.value_fenics.type = "Function") =>
            bc'.bc_expr = bc.bc_expr]_vars

C14_Witness ==
    /\ Updated
    /\ bc.cls = "ParticleFluxBC"
    /\ bc.value.kind = "callable"
    /\ bc.value.args = {"x", "t", "T"}
    /\ bc.bc_expr = Expression(bc.value, {"x", "t", "T"})
    /\ bc.value_fenics = Function(bc.bc_expr)
    /\ bc_calls = <<"value_fenics.interpolate">>

C15_WitnessTemperature ==
    /\ bc_op.name = "temperature_dependent"
    /\ ~bc_op.result
    /\ bc.cls = "ParticleFluxBC"
    /\ bc.value.args = {"x", "t"}

Initialised == driver \in {"initialised", "running", "done"}

C18_WitnessAlias ==
    /\ op = "initialise"
    /\ raised = "none"
    /\ ~MeshesDiffer
    /\ hydrogen_problem.initialised
    /\ hydrogen_problem.temperature = "heat_problem.u"

Projects == \E i \in 1..Len(calls) : calls[i] = "nmm_interpolate"

C19_WitnessAlias ==
    /\ driver = "running"
    /\ op = "iterate"
    /\ run_iters >= 2
    /\ ~MeshesDiffer
    /\ ~Projects

\* C20: in a transient coupled run the two clocks agree after initialise()
\* and after every iterate(), and both sub-problems hold the same step size.
C20_ClocksInLockstep ==
    (Initialised /\ BothTransient) =>
        /\ heat_problem.t = hydrogen_problem.t
        /\ heat_problem.dt = hydrogen_problem.dt

C20_Witness ==
    /\ Initialised
    /\ BothTransient
    /\ op = "iterate"
    /\ proposed.heat # proposed.hydrogen
    /\ hydrogen_problem.t >= 2
    /\ heat_problem.t = hydrogen_problem.t

\* C21 (as stated): an initialise() that fails with the final-time
\* mismatch error leaves both stepsize.initial_value as they were given,
\* neither overwritten with the minimum of the two.
C21_FailedInitialiseKeepsSettings ==
    (op = "initialise" /\ raised = "ValueError") =>
        /\ heat_problem.initial_value = proposed.heat
        /\ hydrogen_problem.initial_value = proposed.hydrogen

\* ----------------------------------- implantation boundary condition
ImpExists == imp.cls # "None"

\* C16 (as stated): create_value completes for every combination of
\* operand shapes and installs a Constant when every operand is a plain
\* number or None, a Function with its expression stored otherwise.
C16_CreateValueCompletes ==
    (ImpExists /\ bc_op.name = "create_value") =>
        /\ bc_raised = "none"
        /\ IF imp.phi = "number" /\ imp.R_p = "number"
           THEN imp.value_fenics = "Constant"
           ELSE imp.value_fenics = "Function" /\ imp.bc_expr # "None"

\* the text of the terms of the correlation
Text_phi == IF imp.phi = "number" THEN "phi" ELSE "phi(x,t,T)"
Text_R_p == IF imp.R_p = "number" THEN "R_p" ELSE "R_p(x,t,T)"
Text_mod == IF bc_op.result THEN "np" ELSE "ufl"
Text_diffusion ==
    Text_phi \o "*" \o Text_R_p \o "/(D_0*" \o Text_mod
        \o ".exp(-E_D/k_B/T))"
Text_Kr == "(Kr_0*" \o Text_mod \o ".exp(-E_Kr/k_B/T))"
Text_Kd == "Kd_0*" \o Text_mod \o ".exp(-E_Kd/k_B/T)"

\* C17: dc_imp returns phi*R_p/D alone when Kr_0 is None, adds
\* sqrt(phi/Kr) when Kr_0 is given and Kd_0 is None, and adds
\* sqrt((phi + Kd*P)/Kr) when both are given, with either backend.
C17_TermsFollowKinetics ==
    (ImpExists /\ bc_op.name = "dc_imp") =>
        IF imp.Kr_0 = "None"
        THEN bc_raised = "none" /\ value_BC = Text_diffusion
        ELSE IF imp.Kd_0 = "None"
        THEN /\ bc_raised = "none"
             /\ value_BC = Text_diffusion \o " + (" \o Text_phi \o "/"
                               \o Text_Kr \o ")**0.5"
        ELSE imp.P # "None" =>
             /\ bc_raised = "none"
             /\ value_BC = Text_diffusion \o " + ((" \o Text_phi \o " + "
                               \o Text_Kd \o "*P)/" \o Text_Kr \o ")**0.5"

C17_Witness ==
    /\ ImpExists
    /\ bc_op.name = "dc_imp"
    /\ imp.Kr_0 = "number"
    /\ imp.Kd_0 = "None"
    /\ imp.P = "number"
    /\ value_BC = "phi*R_p/(D_0*np.exp(-E_D/k_B/T))"
                    \o " + (phi/(Kr_0*np.exp(-E_Kr/k_B/T)))**0.5"

C17_WitnessBoth ==
    /\ ImpExists
    /\ bc_op.name = "dc_imp"
    /\ value_BC = "phi(x,t,T)*R_p/(D_0*ufl.exp(-E_D/k_B/T)) + ((phi(x,t,T)"
                    \o " + Kd_0*ufl.exp(-E_Kd/k_B/T)*P)"
                    \o "/(Kr_0*ufl.exp(-E_Kr/k_B/T)))**0.5"

\* C22 (as stated): whatever values were assigned and whatever
\* create_value_fenics and update calls were made, value_fenics is a
\* Function exactly when bc_expr is set, a Constant never coexists with a
\* stored bc_expr, and update() never interpolates a Constant or a missing
\* expression.
C22_RepresentationMatchesExpression ==
    FluxExists =>
        /\ bc.value_fenics.type = "Function" <=> bc.bc_expr.is_set
        /\ ~(bc.value_fenics.type = "Constant" /\ bc.bc_expr.is_set)
        /\ Updated =>
              /\ ~(bc_raised = "AttributeError"
                      /\ bc.value_fenics.type = "Constant")
              /\ ~(bc_calls = <<"value_fenics.interpolate">>
                      /\ ~bc.bc_expr.is_set)
====
